---- MODULE Spec2Model ----
(***************************************************************************)
(* servest: the keep-alive server engine of server.ts.                     *)
(*                                                                         *)
(* listenInternal (the accept loop and its close handle) and               *)
(* handleKeepAliveConn (one session per accepted connection:               *)
(* scheduleReadRequest / processRequest and the response wait queue).      *)
(*                                                                         *)
(* Every `await` of the source is a point where another task may run, so   *)
(* each one separates two actions.  Code between two awaits runs to        *)
(* completion and is one action.                                           *)
(***************************************************************************)
EXTENDS Integers, Sequences, FiniteSets, TLC

\* ------------------------------------------------------------------ bounds
MaxConns == 2          \* connections the listener can hand out
MaxReq == 2            \* requests the peer of a lone session sends
MaxReqServed == 1      \* requests the peers of a listener send in total
MaxReqTls == 2         \* requests read in a run of a TLS listener, all connections
MaxKeepAliveMax == 1   \* largest "max" a peer declares in Keep-Alive
MaxCloseCalls == 2     \* calls of the handle's close() by the caller

Conns == 1..MaxConns

\* ---------------------------------------------------------- input domains
\* ServeOptions.keepAliveTimeout / readTimeout (ms) the caller configures
KeepAliveTimeouts == {2000, 4000}
ReadTimeouts == {1000}
\* Keep-Alive: timeout=T (seconds) a peer declares
PeerTimeouts == {1, 3}
\* ServerResponse.status a handler responds with; NoStatus is
\* respondedStatus() before any respond()
Statuses == {200, 101}
NoStatus == 0
SwitchingProtocols == 101

\* IncomingHttpRequest, reduced to the fields processRequest reads:
\* url matches /^\//, headers.get("connection") === "close", keepAlive
Requests ==
    [urlok : {TRUE}, close : BOOLEAN, ka : {TRUE},
     timeout : PeerTimeouts, max : 0..MaxKeepAliveMax]
    \cup [urlok : {TRUE}, close : BOOLEAN, ka : {FALSE}, timeout : {0}, max : {0}]
    \cup [urlok : {FALSE}, close : {FALSE}, ka : {FALSE}, timeout : {0}, max : {0}]

\* the requests the peers of a listener send
ServedRequests ==
    {[urlok |-> TRUE, close |-> FALSE, ka |-> FALSE, timeout |-> 0, max |-> 0]}
\* the requests the peers of a TLS listener send: the second one declares
\* Keep-Alive: timeout=1, max=0
TlsRequests ==
    ServedRequests
    \cup {[urlok |-> TRUE, close |-> FALSE, ka |-> TRUE, timeout |-> 1, max |-> 0]}
\* the ServeOptions a listener is started with
ServedOpts == {[keepAliveTimeout |-> 2000, readTimeout |-> 1000]}

VARIABLES
    \* ---- ServeOptions shared by the listener and its sessions
    cfg,          \* [keepAliveTimeout, readTimeout] after initServeOptions
    cancelSig,    \* opts.cancel: "pending" (also: not supplied), "resolved"
    entry,        \* the exported function that started the run
    \* ---- listenInternal
    closed,       \* let closed
    dResolved,    \* deferred d is resolved
    listenerCloses, \* calls of listener.close()
    acc,          \* the accept in flight: "idle", "pending", "resolved", "failed", "cancelled"
    accepts,      \* calls of listener.accept()
    started,      \* connections handed to handleKeepAliveConn
    closeCalls,   \* calls of the handle's close() by the caller
    \* ---- handleKeepAliveConn, one per connection
    pc,           \* where processRequest is suspended
    ropts,        \* opts of the current processRequest call
    reads,        \* calls of readRequest
    reqs,         \* requests readRequest returned, in order
    hstate,       \* per request: handler "none", "running", "returned", "thrown"
    rstatus,      \* per request: respondedStatus()
    bstate,       \* per request: body "open", "closed", "failed"
    queue,        \* promiseWaitQueue: pending jobs (request numbers), head in flight
    wire,         \* responses fully written to the connection, in order
    wfail,        \* responses whose write failed
    connCloses,   \* calls of conn.close()
    why           \* the error that reached scheduleReadRequest's catch

supVars == <<closed, dResolved, listenerCloses, acc, accepts, started, closeCalls>>
sessVars == <<pc, ropts, reads, reqs, hstate, rstatus, bstate, queue, wire,
              wfail, connCloses, why>>
optVars == <<cfg, entry>>
vars == <<cfg, cancelSig, entry, supVars, sessVars>>


\* =================================================== handleKeepAliveConn
\* number of the request the current processRequest call is working on
Cur(c) == Len(reqs[c])

RECURSIVE ReadUpTo(_)
\* requests read on connections 1..c
ReadUpTo(c) == IF c = 0 THEN 0 ELSE Len(reqs[c]) + ReadUpTo(c - 1)
TotalRead == ReadUpTo(MaxConns)

\* requests the peers send in this run, in total, and what they choose from
reqCap ==
    IF entry = "handleKeepAliveConn" THEN MaxReq
    ELSE IF entry = "listenAndServeTls" THEN MaxReqTls
    ELSE MaxReqServed
peerReqs ==
    IF entry = "listenAndServe" THEN ServedRequests
    ELSE IF entry = "listenAndServeTls" THEN TlsRequests
    ELSE Requests

\* fault: the sessions are handed the raced `cancel` of listenInternal
SessionCancelledByClose == dResolved \/ cancelSig = "resolved"
\* opts.cancel as handed to the session's reads (server.ts:200, 260)
SessionCancelled == cancelSig = "resolved"

\* Math.min
MathMin(a, b) == IF a < b THEN a ELSE b

\* fault: the timeout is taken from the opts of the cycle
KeepAliveBaseFromCycle(c) == ropts[c].keepAliveTimeout
\* let keepAliveTimeout = originalOpts.keepAliveTimeout (server.ts:244)
KeepAliveBase(c) == cfg.keepAliveTimeout

\* server.ts:244-256: the keep-alive timeout of the next cycle
NextKeepAliveTimeout(c, r) ==
    IF r.ka THEN MathMin(KeepAliveBase(c), r.timeout * 1000)
    ELSE KeepAliveBase(c)

\* fault: the first read is given the configured keepAliveTimeout
FirstOptsKeepAlive ==
    [keepAliveTimeout |-> cfg.keepAliveTimeout, readTimeout |-> cfg.readTimeout,
     cancel |-> TRUE]
\* the options of the first read (server.ts:197-201); cancel tells whether
\* the options carry opts.cancel
FirstOpts ==
    [keepAliveTimeout |-> cfg.readTimeout, readTimeout |-> cfg.readTimeout,
     cancel |-> TRUE]

\* fault: the options of the next cycle are built without cancel
NextOptsNoCancel(c, r) ==
    [keepAliveTimeout |-> NextKeepAliveTimeout(c, r),
     readTimeout |-> ropts[c].readTimeout,
     cancel |-> FALSE]
\* the options processRequest returns for the next cycle (server.ts:257-261)
NextOpts(c, r) ==
    [keepAliveTimeout |-> NextKeepAliveTimeout(c, r),
     readTimeout |-> ropts[c].readTimeout,
     cancel |-> ropts[c].cancel]

\* readRequest(bufReader, opts) gives up its read: the cancel of its options
\* has resolved
CancelWins(c) == ropts[c].cancel /\ SessionCancelled

\* fault: the catch of a session is the close of listenInternal, as the catch
\* of the accept is
SessionFrameCatchClose ==
    /\ UNCHANGED <<optVars, cancelSig, acc, accepts, started, closeCalls>>
    /\ IF \E c \in Conns : connCloses'[c] # connCloses[c]
       THEN /\ closed' = TRUE
            /\ dResolved' = TRUE
            /\ listenerCloses' = listenerCloses + (IF closed THEN 0 ELSE 1)
       ELSE UNCHANGED <<closed, dResolved, listenerCloses>>
\* a step of one session leaves the listener and the options alone
SessionFrame == UNCHANGED <<optVars, cancelSig, supVars>>

\* scheduleReadRequest(o): processRequest(o) runs up to `await readRequest`
ScheduleReadRequest(c, o) ==
    /\ pc' = [pc EXCEPT ![c] = "read"]
    /\ ropts' = [ropts EXCEPT ![c] = o]
    /\ reads' = [reads EXCEPT ![c] = @ + 1]

\* fault: the catch closes the connection and lets the session read on
CatchReadOn(c, reason) ==
    /\ pc' = [pc EXCEPT ![c] = "read"]
    /\ connCloses' = [connCloses EXCEPT ![c] = @ + 1]
    /\ why' = [why EXCEPT ![c] = reason]
\* processRequest rejected: .catch(() => { conn.close() })  (server.ts:208-210)
CatchClose(c, reason) ==
    /\ pc' = [pc EXCEPT ![c] = "closed"]
    /\ connCloses' = [connCloses EXCEPT ![c] = @ + 1]
    /\ why' = [why EXCEPT ![c] = reason]

\* handleKeepAliveConn(conn, handler, opts)  (server.ts:184-201)
HandleKeepAliveConn(c) ==
    /\ ScheduleReadRequest(c, FirstOpts)
    /\ UNCHANGED <<reqs, hstate, rstatus, bstate, queue, wire, wfail, connCloses, why>>

\* fault: the url is not tested
UrlNotChecked(r) == TRUE
\* baseReq.url.match(/^\//)  (server.ts:223)
UrlMatches(r) == r.urlok

\* readRequest resolves with baseReq; processRequest runs on to
\* `await handler(req)` or throws "malformed url"  (server.ts:216-237)
ReadOk(c, r) ==
    /\ pc[c] = "read"
    /\ TotalRead < reqCap
    /\ r \in peerReqs
    /\ ~CancelWins(c)
    /\ reqs' = [reqs EXCEPT ![c] = Append(@, r)]
    /\ rstatus' = [rstatus EXCEPT ![c] = Append(@, NoStatus)]
    /\ bstate' = [bstate EXCEPT ![c] = Append(@, "open")]
    /\ IF UrlMatches(r)
       THEN /\ hstate' = [hstate EXCEPT ![c] = Append(@, "running")]
            /\ pc' = [pc EXCEPT ![c] = "handler"]
            /\ UNCHANGED <<connCloses, why>>
       ELSE /\ hstate' = [hstate EXCEPT ![c] = Append(@, "none")]
            /\ CatchClose(c, "malformed url")
    /\ UNCHANGED <<ropts, reads, queue, wire, wfail>>
    /\ SessionFrame

\* readRequest rejects: timeout, end of stream or input the codec refuses
ReadFail(c) ==
    /\ pc[c] = "read"
    /\ CatchClose(c, "read")
    /\ UNCHANGED <<ropts, reads, reqs, hstate, rstatus, bstate, queue, wire, wfail>>
    /\ SessionFrame

\* readRequest rejects because opts.cancel resolved first
ReadCancelled(c) ==
    /\ pc[c] = "read"
    /\ CancelWins(c)
    /\ CatchClose(c, "cancelled")
    /\ UNCHANGED <<ropts, reads, reqs, hstate, rstatus, bstate, queue, wire, wfail>>
    /\ SessionFrame

\* the responder of createResponder accepts one respond() per request
NotYetResponded(c, n) == rstatus[c][n] = NoStatus

\* promiseWaitQueue.enqueue: the job joins the end of the queue; the job at
\* the head of the queue is the one being written
Enqueue(c, n) == queue' = [queue EXCEPT ![c] = Append(@, n)]

\* the handler calls req.respond(resp): onResponse -> q.enqueue(resp)
\* (server.ts:218-221).  A handler responds while it runs, awaiting the
\* returned promise or not: the Handler interface has the response submitted
\* before the handler returns.
HandlerRespond(c, n, st) ==
    /\ n \in 1..Cur(c)
    /\ hstate[c][n] = "running"
    /\ NotYetResponded(c, n)
    /\ rstatus' = [rstatus EXCEPT ![c][n] = st]
    /\ Enqueue(c, n)
    /\ UNCHANGED <<pc, ropts, reads, reqs, hstate, bstate, wire, wfail, connCloses, why>>
    /\ SessionFrame

\* the promise handler(req) resolves
HandlerReturn(c, n) ==
    /\ n \in 1..Cur(c)
    /\ hstate[c][n] = "running"
    /\ hstate' = [hstate EXCEPT ![c][n] = "returned"]
    /\ UNCHANGED <<pc, ropts, reads, reqs, rstatus, bstate, queue, wire, wfail, connCloses, why>>
    /\ SessionFrame

\* the handler throws, or the promise handler(req) rejects
HandlerThrow(c, n) ==
    /\ n \in 1..Cur(c)
    /\ hstate[c][n] = "running"
    /\ hstate' = [hstate EXCEPT ![c][n] = "thrown"]
    /\ UNCHANGED <<pc, ropts, reads, reqs, rstatus, bstate, queue, wire, wfail, connCloses, why>>
    /\ SessionFrame

\* fault: handler(req) is called without await
HandlerNotAwaited(c) == TRUE
\* `await handler(req)` may resume  (server.ts:237)
HandlerSettled(c) == hstate[c][Cur(c)] \in {"returned", "thrown"}

AwaitHandler(c) ==
    /\ pc[c] = "handler"
    /\ HandlerSettled(c)
    /\ IF hstate[c][Cur(c)] = "thrown"
       THEN CatchClose(c, "handler")
       ELSE /\ pc' = [pc EXCEPT ![c] = "responded"]
            /\ UNCHANGED <<connCloses, why>>
    /\ UNCHANGED <<ropts, reads, reqs, hstate, rstatus, bstate, queue, wire, wfail>>
    /\ SessionFrame

\* fault: `responded` starts as a promise that the first write resolves
RespondedOnlyByWrite(c) ==
    \/ \E i \in 1..Len(wire[c]) : wire[c][i] = Cur(c)
    \/ Cur(c) \in wfail[c]
\* fault: `responded` is not awaited
RespondedNotAwaited(c) == TRUE
\* `await responded` may resume: `responded` is Promise.resolve() until the
\* handler responds, then the promise q.enqueue returned  (server.ts:217-220, 238)
RespondedSettled(c) ==
    \/ rstatus[c][Cur(c)] = NoStatus
    \/ \E i \in 1..Len(wire[c]) : wire[c][i] = Cur(c)
    \/ Cur(c) \in wfail[c]

AwaitResponded(c) ==
    /\ pc[c] = "responded"
    /\ RespondedSettled(c)
    /\ IF Cur(c) \in wfail[c]
       THEN CatchClose(c, "write")
       ELSE /\ pc' = [pc EXCEPT ![c] = "body"]
            /\ UNCHANGED <<connCloses, why>>
    /\ UNCHANGED <<ropts, reads, reqs, hstate, rstatus, bstate, queue, wire, wfail>>
    /\ SessionFrame

\* fault: the 101 test is missing
UpgradeIgnored(c) == FALSE
\* req.respondedStatus() === 101  (server.ts:240)
Upgraded(c) == rstatus[c][Cur(c)] = SwitchingProtocols

\* fault: max < 0 in place of max <= 0
KeepAliveEndedOffByOne(r) == r.ka /\ r.max < 0
\* req.keepAlive && req.keepAlive.max <= 0  (server.ts:245)
KeepAliveEnded(r) == r.ka /\ r.max <= 0

\* fault: the connection header is not tested
ConnectionCloseIgnored(r) == FALSE
\* req.headers.get("connection") === "close"  (server.ts:248)
ConnectionCloseHeader(r) == r.close

\* fault: the connection header is tested first, the status last
DecideContinueHeaderFirst(c) ==
    LET r == reqs[c][Cur(c)] IN
    IF ConnectionCloseHeader(r)
    THEN /\ CatchClose(c, "connection closed header")
         /\ UNCHANGED <<ropts, reads>>
    ELSE IF KeepAliveEnded(r)
    THEN /\ CatchClose(c, "keep-alive ended")
         /\ UNCHANGED <<ropts, reads>>
    ELSE IF Upgraded(c)
    THEN /\ pc' = [pc EXCEPT ![c] = "upgraded"]
         /\ UNCHANGED <<ropts, reads, connCloses, why>>
    ELSE /\ ScheduleReadRequest(c, NextOpts(c, r))
         /\ UNCHANGED <<connCloses, why>>
\* fault: an ended keep-alive returns as the upgrade does, without throwing
DecideContinueReturns(c) ==
    LET r == reqs[c][Cur(c)] IN
    IF Upgraded(c) \/ KeepAliveEnded(r)
    THEN /\ pc' = [pc EXCEPT ![c] = "upgraded"]
         /\ UNCHANGED <<ropts, reads, connCloses, why>>
    ELSE IF ConnectionCloseHeader(r)
    THEN /\ CatchClose(c, "connection closed header")
         /\ UNCHANGED <<ropts, reads>>
    ELSE /\ ScheduleReadRequest(c, NextOpts(c, r))
         /\ UNCHANGED <<connCloses, why>>
\* server.ts:240-261 and the .then of scheduleReadRequest (server.ts:205-207)
DecideContinue(c) ==
    LET r == reqs[c][Cur(c)] IN
    IF Upgraded(c)
    THEN /\ pc' = [pc EXCEPT ![c] = "upgraded"]
         /\ UNCHANGED <<ropts, reads, connCloses, why>>
    ELSE IF KeepAliveEnded(r)
    THEN /\ CatchClose(c, "keep-alive ended")
         /\ UNCHANGED <<ropts, reads>>
    ELSE IF ConnectionCloseHeader(r)
    THEN /\ CatchClose(c, "connection closed header")
         /\ UNCHANGED <<ropts, reads>>
    ELSE /\ ScheduleReadRequest(c, NextOpts(c, r))
         /\ UNCHANGED <<connCloses, why>>

\* `await req.body.close()` resolves, processRequest runs to its end
BodyCloseOk(c) ==
    /\ pc[c] = "body"
    /\ bstate' = [bstate EXCEPT ![c][Cur(c)] = "closed"]
    /\ DecideContinue(c)
    /\ UNCHANGED <<reqs, hstate, rstatus, queue, wire, wfail>>
    /\ SessionFrame

\* `await req.body.close()` rejects
BodyCloseFail(c) ==
    /\ pc[c] = "body"
    /\ bstate' = [bstate EXCEPT ![c][Cur(c)] = "failed"]
    /\ CatchClose(c, "body")
    /\ UNCHANGED <<ropts, reads, reqs, hstate, rstatus, queue, wire, wfail>>
    /\ SessionFrame

\* the handler has returned without responding and something it left behind
\* (a timer, a promise nobody awaited) calls req.respond(resp) after
\* `await responded` took the resolved promise: onResponse -> q.enqueue(resp)
\* with no session waiting for it  (server.ts:217-221, 238)
LateRespond(c, n, st) ==
    /\ n \in 1..Cur(c)
    /\ hstate[c][n] = "returned"
    /\ n < Cur(c) \/ pc[c] \in {"body", "read", "upgraded", "closed"}
    /\ NotYetResponded(c, n)
    /\ rstatus' = [rstatus EXCEPT ![c][n] = st]
    /\ Enqueue(c, n)
    /\ UNCHANGED <<pc, ropts, reads, reqs, hstate, bstate, wire, wfail, connCloses, why>>
    /\ SessionFrame
\* promiseWaitQueue: the job being written is the head of the queue
InFlight(c) == Head(queue[c])

\* fault: the responses do not go through q, each writeResponse runs on its
\* own and any submitted response may complete first
WriteUnqueued(c) ==
    /\ queue[c] # <<>>
    /\ connCloses[c] = 0
    /\ \E i \in 1..Len(queue[c]) :
          /\ wire' = [wire EXCEPT ![c] = Append(@, queue[c][i])]
          /\ queue' = [queue EXCEPT ![c] =
                          SubSeq(@, 1, i - 1) \o SubSeq(@, i + 1, Len(@))]
    /\ UNCHANGED <<pc, ropts, reads, reqs, hstate, rstatus, bstate, wfail, connCloses, why>>
    /\ SessionFrame
\* writeResponse(bufWriter, resp) of the job in flight resolves; the queue
\* shifts and starts the next job
WriteOk(c) ==
    /\ queue[c] # <<>>
    /\ connCloses[c] = 0
    /\ wire' = [wire EXCEPT ![c] = Append(@, InFlight(c))]
    /\ queue' = [queue EXCEPT ![c] = Tail(@)]
    /\ UNCHANGED <<pc, ropts, reads, reqs, hstate, rstatus, bstate, wfail, connCloses, why>>
    /\ SessionFrame

\* writeResponse of the job in flight rejects
WriteFail(c) ==
    /\ queue[c] # <<>>
    /\ wfail' = [wfail EXCEPT ![c] = @ \cup {InFlight(c)}]
    /\ queue' = [queue EXCEPT ![c] = Tail(@)]
    /\ UNCHANGED <<pc, ropts, reads, reqs, hstate, rstatus, bstate, wire, connCloses, why>>
    /\ SessionFrame

\* opts.cancel, the caller's promise, resolves
ExternalCancel ==
    /\ cancelSig = "pending"
    /\ cancelSig' = "resolved"
    /\ UNCHANGED <<optVars, supVars, sessVars>>

\* ========================================================= listenInternal
\* fault: the accepts are raced against d alone, opts.cancel is left out
CancelledByCloseOnly == dResolved
\* cancel = Promise.race([opts.cancel, d])  (server.ts:152-158)
Cancelled == dResolved \/ cancelSig = "resolved"

\* fault: close() without the closed flag
CloseHandleUnguarded ==
    /\ dResolved' = TRUE
    /\ listenerCloses' = listenerCloses + 1
    /\ closed' = TRUE
\* const close = () => { ... }  (server.ts:163-169)
CloseHandle ==
    IF ~closed
    THEN /\ dResolved' = TRUE
         /\ listenerCloses' = listenerCloses + 1
         /\ closed' = TRUE
    ELSE UNCHANGED <<dResolved, listenerCloses, closed>>

\* the caller calls close() on the returned handle
Close ==
    /\ closeCalls < MaxCloseCalls
    /\ closeCalls' = closeCalls + 1
    /\ CloseHandle
    /\ UNCHANGED <<acc, accepts, started>>
    /\ UNCHANGED <<optVars, cancelSig, sessVars>>

\* listener.accept() resolves before cancel does: throwIfCancelled's promise
\* resolves with the connection, its .then callback is queued
AcceptResolve ==
    /\ acc = "pending"
    /\ ~Cancelled
    /\ started < MaxConns
    /\ acc' = "resolved"
    /\ UNCHANGED <<closed, dResolved, listenerCloses, accepts, started, closeCalls>>
    /\ UNCHANGED <<optVars, cancelSig, sessVars>>

\* listener.accept() rejects: throwIfCancelled's promise rejects with the
\* error of the accept
AcceptFail ==
    /\ acc = "pending"
    /\ acc' = "failed"
    /\ UNCHANGED <<closed, dResolved, listenerCloses, accepts, started, closeCalls>>
    /\ UNCHANGED <<optVars, cancelSig, sessVars>>

\* cancel resolves before listener.accept() does: throwIfCancelled's promise
\* rejects as cancelled
AcceptCancelled ==
    /\ acc = "pending"
    /\ Cancelled
    /\ acc' = "cancelled"
    /\ UNCHANGED <<closed, dResolved, listenerCloses, accepts, started, closeCalls>>
    /\ UNCHANGED <<optVars, cancelSig, sessVars>>

\* fault: acceptRoutine() without `if (closed) return`
AcceptRoutineUnguarded == acc' = "pending" /\ accepts' = accepts + 1
\* acceptRoutine()  (server.ts:170-178)
AcceptRoutine ==
    IF closed'
    THEN acc' = "idle" /\ UNCHANGED accepts
    ELSE acc' = "pending" /\ accepts' = accepts + 1

\* .then((conn) => { handleKeepAliveConn(conn, handler, opts); acceptRoutine() })
AcceptThen ==
    /\ acc = "resolved"
    /\ started' = started + 1
    /\ HandleKeepAliveConn(started + 1)
    /\ UNCHANGED <<closed, dResolved, listenerCloses, closeCalls>>
    /\ AcceptRoutine
    /\ UNCHANGED <<optVars, cancelSig>>

\* fault: the catch issues the next accept
AcceptCatchRetry ==
    /\ acc \in {"failed", "cancelled"}
    /\ UNCHANGED <<closed, dResolved, listenerCloses>>
    /\ AcceptRoutine
    /\ UNCHANGED <<started, closeCalls>>
    /\ UNCHANGED <<optVars, cancelSig, sessVars>>
\* .catch(close)
AcceptCatch ==
    /\ acc \in {"failed", "cancelled"}
    /\ CloseHandle
    /\ acc' = "idle"
    /\ UNCHANGED <<accepts, started, closeCalls>>
    /\ UNCHANGED <<optVars, cancelSig, sessVars>>

\* ========================================================= specifications
InitNoSession ==
    /\ pc = [c \in Conns |-> "idle"]
    /\ ropts = [c \in Conns |-> FirstOpts]
    /\ reads = [c \in Conns |-> 0]
    /\ reqs = [c \in Conns |-> <<>>]
    /\ hstate = [c \in Conns |-> <<>>]
    /\ rstatus = [c \in Conns |-> <<>>]
    /\ bstate = [c \in Conns |-> <<>>]
    /\ queue = [c \in Conns |-> <<>>]
    /\ wire = [c \in Conns |-> <<>>]
    /\ wfail = [c \in Conns |-> {}]
    /\ connCloses = [c \in Conns |-> 0]
    /\ why = [c \in Conns |-> "none"]

\* listenAndServe(listenOptions, handler, opts): listenInternal has run,
\* the first acceptRoutine() has called listener.accept()
Init ==
    /\ cfg \in ServedOpts
    /\ cancelSig = "pending"
    /\ entry = "listenAndServe"
    /\ closed = FALSE
    /\ dResolved = FALSE
    /\ listenerCloses = 0
    /\ acc = "pending"
    /\ accepts = 1
    /\ started = 0
    /\ closeCalls = 0
    /\ InitNoSession

Next ==
    \/ Close
    \/ AcceptResolve
    \/ AcceptFail
    \/ AcceptCancelled
    \/ AcceptThen
    \/ AcceptCatch
    \/ ExternalCancel
    \/ \E c \in Conns, r \in Requests : ReadOk(c, r)
    \/ \E c \in Conns : ReadFail(c)
    \/ \E c \in Conns : ReadCancelled(c)
    \/ \E c \in Conns, n \in 1..reqCap, st \in Statuses : HandlerRespond(c, n, st)
    \/ \E c \in Conns, n \in 1..reqCap : HandlerReturn(c, n)
    \/ \E c \in Conns, n \in 1..reqCap : HandlerThrow(c, n)
    \/ \E c \in Conns : AwaitHandler(c)
    \/ \E c \in Conns : AwaitResponded(c)
    \/ \E c \in Conns : BodyCloseOk(c)
    \/ \E c \in Conns : BodyCloseFail(c)
    \/ \E c \in Conns : WriteOk(c)
    \/ \E c \in Conns : WriteFail(c)

Spec == Init /\ [][Next]_vars

\* handleKeepAliveConn(conn, handler, opts) called on one connection the
\* caller owns; no listener
InitConn ==
    /\ cfg \in [keepAliveTimeout : KeepAliveTimeouts, readTimeout : ReadTimeouts]
    /\ cancelSig = "pending"
    /\ entry = "handleKeepAliveConn"
    /\ closed = FALSE
    /\ dResolved = FALSE
    /\ listenerCloses = 0
    /\ acc = "idle"
    /\ accepts = 0
    /\ started = 1
    /\ closeCalls = 0
    /\ pc = [c \in Conns |-> IF c = 1 THEN "read" ELSE "idle"]
    /\ ropts = [c \in Conns |-> FirstOpts]
    /\ reads = [c \in Conns |-> IF c = 1 THEN 1 ELSE 0]
    /\ reqs = [c \in Conns |-> <<>>]
    /\ hstate = [c \in Conns |-> <<>>]
    /\ rstatus = [c \in Conns |-> <<>>]
    /\ bstate = [c \in Conns |-> <<>>]
    /\ queue = [c \in Conns |-> <<>>]
    /\ wire = [c \in Conns |-> <<>>]
    /\ wfail = [c \in Conns |-> {}]
    /\ connCloses = [c \in Conns |-> 0]
    /\ why = [c \in Conns |-> "none"]

NextConn ==
    \/ ExternalCancel
    \/ \E r \in Requests : ReadOk(1, r)
    \/ ReadFail(1)
    \/ ReadCancelled(1)
    \/ \E n \in 1..reqCap, st \in Statuses : HandlerRespond(1, n, st)
    \/ \E n \in 1..reqCap : HandlerReturn(1, n)
    \/ \E n \in 1..reqCap : HandlerThrow(1, n)
    \/ AwaitHandler(1)
    \/ AwaitResponded(1)
    \/ BodyCloseOk(1)
    \/ BodyCloseFail(1)
    \/ WriteOk(1)
    \/ WriteFail(1)

SpecConn == InitConn /\ [][NextConn]_vars

\* one session whose handlers may also respond after they returned, so that
\* responses of several requests wait in q together; the peer sends plain
\* requests
NextQueue ==
    \/ \E r \in ServedRequests : ReadOk(1, r)
    \/ ReadFail(1)
    \/ \E n \in 1..reqCap, st \in Statuses : HandlerRespond(1, n, st)
    \/ \E n \in 1..reqCap, st \in Statuses : LateRespond(1, n, st)
    \/ \E n \in 1..reqCap : HandlerReturn(1, n)
    \/ \E n \in 1..reqCap : HandlerThrow(1, n)
    \/ AwaitHandler(1)
    \/ AwaitResponded(1)
    \/ BodyCloseOk(1)
    \/ BodyCloseFail(1)
    \/ WriteOk(1)
    \/ WriteFail(1)

SpecQueue == InitConn /\ [][NextQueue]_vars
\* listenAndServeTls(listenOptions, handler, opts): the same listenInternal;
\* in these runs nobody calls close(), opts.cancel stays pending and no accept
\* fails, so whatever ends a session comes from the session itself
InitTls ==
    /\ cfg \in ServedOpts
    /\ cancelSig = "pending"
    /\ entry = "listenAndServeTls"
    /\ closed = FALSE
    /\ dResolved = FALSE
    /\ listenerCloses = 0
    /\ acc = "pending"
    /\ accepts = 1
    /\ started = 0
    /\ closeCalls = 0
    /\ InitNoSession

NextTls ==
    \/ AcceptResolve
    \/ AcceptThen
    \/ \E c \in Conns, r \in TlsRequests : ReadOk(c, r)
    \/ \E c \in Conns : ReadFail(c)
    \/ \E c \in Conns, n \in 1..reqCap, st \in Statuses : HandlerRespond(c, n, st)
    \/ \E c \in Conns, n \in 1..reqCap : HandlerReturn(c, n)
    \/ \E c \in Conns, n \in 1..reqCap : HandlerThrow(c, n)
    \/ \E c \in Conns : AwaitHandler(c)
    \/ \E c \in Conns : AwaitResponded(c)
    \/ \E c \in Conns : BodyCloseOk(c)
    \/ \E c \in Conns : BodyCloseFail(c)
    \/ \E c \in Conns : WriteOk(c)
    \/ \E c \in Conns : WriteFail(c)

SpecTls == InitTls /\ [][NextTls]_vars
\* the listener with peers that connect and send nothing.  The callbacks of
\* settled promises are run by the event loop: a cancel that has resolved
\* rejects the pending accept, and the .then and .catch of a settled accept
\* run; nothing makes a peer connect, an accept fail or the caller act.
NextAccept ==
    \/ Close
    \/ AcceptResolve
    \/ AcceptFail
    \/ AcceptCancelled
    \/ AcceptThen
    \/ AcceptCatch
    \/ ExternalCancel
    \/ \E c \in Conns : ReadFail(c)
    \/ \E c \in Conns : ReadCancelled(c)

SpecAccept ==
    /\ Init
    /\ [][NextAccept]_vars
    /\ WF_vars(AcceptCancelled)
    /\ WF_vars(AcceptThen)
    /\ WF_vars(AcceptCatch)
\* ================================================================ claims
Written(c, n) == \E i \in 1..Len(wire[c]) : wire[c][i] = n
Responded(c, n) == rstatus[c][n] # NoStatus
\* the cycle of request n ran to the end of `await req.body.close()`
CycleDone(c, n) ==
    /\ hstate[c][n] = "returned"
    /\ Responded(c, n) => Written(c, n)
    /\ bstate[c][n] = "closed"
\* readRequest has been called for the request after request n
NextReadStarted(c, n) == reads[c] > n

ReadsFinished(c) == Cur(c) + (IF why[c] \in {"read", "cancelled"} THEN 1 ELSE 0)
C2_ReadsSequential ==
    \A c \in Conns :
        /\ reads[c] - ReadsFinished(c) \in {0, 1}
        /\ reads[c] - ReadsFinished(c) = 1 <=> pc[c] = "read"
        /\ \A n \in 1..Cur(c) : NextReadStarted(c, n) => CycleDone(c, n)

\* a second read is in flight after a response was written
C2_Witness ==
    \E c \in Conns : pc[c] = "read" /\ reads[c] = 2 /\ Written(c, 1)

\* C3: when the cycle of a request whose response has status 101 completes
\* (handler returned, response flushed, body closed) the session has
\* stopped: conn.close() is never called and no further read is started.
C3_UpgradeStopsLoop ==
    \A c \in Conns : \A n \in 1..Cur(c) :
        (rstatus[c][n] = SwitchingProtocols /\ CycleDone(c, n)) =>
            /\ n = Cur(c)
            /\ pc[c] = "upgraded"
            /\ connCloses[c] = 0
            /\ reads[c] = n

\* a session stopped on a 101 answered to its second request
C3_Witness ==
    \E c \in Conns :
        /\ pc[c] = "upgraded" /\ Cur(c) = 2 /\ Written(c, 2)
        /\ rstatus[c][2] = SwitchingProtocols

\* C4: when a request carries connection: close and its cycle completes
\* without error and without a 101, the session closes the connection and
\* reads no further request; a close for that header happens only after the
\* response is fully written and the body closed.
C4_ConnectionCloseHeader ==
    \A c \in Conns :
        /\ \A n \in 1..Cur(c) :
              (reqs[c][n].close /\ CycleDone(c, n) /\ rstatus[c][n] # SwitchingProtocols) =>
                  /\ n = Cur(c)
                  /\ pc[c] = "closed"
                  /\ connCloses[c] = 1
                  /\ why[c] \in {"connection closed header", "keep-alive ended"}
                  /\ reads[c] = n
        /\ why[c] = "connection closed header" =>
              /\ reqs[c][Cur(c)].close
              /\ CycleDone(c, Cur(c))

\* the connection was closed for the header after the response was written
C4_Witness ==
    \E c \in Conns :
        /\ why[c] = "connection closed header"
        /\ Written(c, Cur(c))
        /\ connCloses[c] = 1

\* C5: the keep-alive timeout of a read that follows a completed cycle is
\* min(D, T*1000) when the request declared keep-alive with timeout T and D
\* otherwise, D being the configured keepAliveTimeout; it never exceeds D.
C5_NextTimeout ==
    \A c \in Conns :
        (Cur(c) >= 1 /\ NextReadStarted(c, Cur(c))) =>
            LET r == reqs[c][Cur(c)]
                D == cfg.keepAliveTimeout
                got == ropts[c].keepAliveTimeout
            IN  /\ r.ka /\ r.timeout * 1000 <= D => got = r.timeout * 1000
                /\ r.ka /\ r.timeout * 1000 > D => got = D
                /\ ~r.ka => got = D
                /\ got <= D
                /\ ropts[c].readTimeout = cfg.readTimeout

\* the first cycle shortened the timeout, the second declared nothing and
\* the third read is back at the configured D
C5_Witness ==
    \E c \in Conns :
        /\ pc[c] = "read" /\ reads[c] = 3
        /\ reqs[c][1].ka /\ reqs[c][1].timeout * 1000 < cfg.keepAliveTimeout
        /\ ~reqs[c][2].ka
        /\ ropts[c].keepAliveTimeout = cfg.keepAliveTimeout

\* requests i..k of connection c all declare keep-alive, each with a max one
\* less than the request before it
Decrementing(c, i, k) ==
    /\ \A j \in i..k : reqs[c][j].ka
    /\ \A j \in (i + 1)..k : reqs[c][j].max = reqs[c][j - 1].max - 1

\* C6 as stated: when request i declares max M >= 1 and the following
\* requests count it down, the (M+1)th request of the run is not dispatched
\* to the handler.
C6_NoFurtherDispatch ==
    \A c \in Conns : \A i, k \in 1..Cur(c) :
        (/\ i <= k
         /\ Decrementing(c, i, k)
         /\ reqs[c][i].max >= 1
         /\ k = i + reqs[c][i].max) => hstate[c][k] = "none"

\* C6, amended: the session ends on the first request whose declared max is
\* not positive.  That request, the (M+1)th of a count-down from M, is read,
\* dispatched to the handler and answered like any other; when its cycle
\* completes without a 101 the session closes the connection and starts no
\* further read.  A completed cycle whose request declares a positive max
\* and no connection: close always starts the next read.
C6_KeepAliveBudget ==
    \A c \in Conns :
        /\ \A n \in 1..Cur(c) :
              (/\ reqs[c][n].ka /\ reqs[c][n].max <= 0
               /\ CycleDone(c, n) /\ rstatus[c][n] # SwitchingProtocols) =>
                  /\ n = Cur(c)
                  /\ pc[c] = "closed"
                  /\ why[c] = "keep-alive ended"
                  /\ connCloses[c] = 1
                  /\ reads[c] = n
        /\ \A n \in 1..Cur(c) :
              (/\ reqs[c][n].ka /\ reqs[c][n].max >= 1 /\ ~reqs[c][n].close
               /\ CycleDone(c, n) /\ rstatus[c][n] # SwitchingProtocols) =>
                  NextReadStarted(c, n)
        /\ why[c] = "keep-alive ended" =>
              /\ reqs[c][Cur(c)].ka /\ reqs[c][Cur(c)].max <= 0
              /\ CycleDone(c, Cur(c))

\* a count-down 1, 0: the second request was answered, then the connection
\* was closed
C6_Witness ==
    \E c \in Conns :
        /\ Cur(c) = 2 /\ Decrementing(c, 1, 2) /\ reqs[c][1].max = 1
        /\ Written(c, 1) /\ Written(c, 2)
        /\ why[c] = "keep-alive ended"

\* C7: however close() calls, accept completions, accept errors and the
\* external cancellation interleave, listener.close() is invoked at most
\* once, exactly once as soon as close() was called, and a call of close()
\* on a closed handle changes nothing.
C7_CloseIdempotent ==
    /\ [](listenerCloses <= 1)
    /\ []((closeCalls >= 1 \/ closed) => (closed /\ dResolved /\ listenerCloses = 1))
    /\ [][(closed /\ closeCalls' # closeCalls) =>
             UNCHANGED <<optVars, cancelSig, closed, dResolved, listenerCloses,
                         acc, accepts, started, sessVars>>]_vars

\* close() was called twice and the listener was closed once
C7_Witness == closeCalls = 2 /\ listenerCloses = 1

\* C8 as stated: once close() has run, no session is started and no accept
\* is issued.
C8_NoSessionAfterClose ==
    [][closed => (started' = started /\ accepts' = accepts)]_vars

\* C8, amended: once close() has run, no accept is issued and no accept
\* completes; a session is started after close() only for the one connection
\* whose accept had completed before close() ran and whose continuation was
\* still queued, and after it the accept loop is idle for good.
C8_NoAcceptAfterClose ==
    [][closed =>
          /\ accepts' = accepts
          /\ acc' = "resolved" => acc = "resolved"
          /\ acc' = "pending" => acc = "pending"
          /\ started' # started =>
                (acc = "resolved" /\ acc' = "idle" /\ started' = started + 1)
          /\ acc = "idle" => (acc' = "idle" /\ started' = started)]_vars

\* the only session of the run was started by a continuation that found the
\* handle closed: one accept was issued, and it was not renewed
C8_Witness ==
    /\ closed /\ closeCalls >= 1
    /\ started = 1 /\ accepts = 1 /\ acc = "idle"
    /\ pc[1] = "handler"

\* C9: a step that closes the handle, or a call of close(), leaves every
\* session as it is, and no session read is ever cancelled unless the
\* caller's own cancellation signal has resolved.
C9_CloseLeavesSessions ==
    /\ [][(closed' # closed \/ closeCalls' # closeCalls) => UNCHANGED sessVars]_vars
    /\ [](\A c \in Conns : why[c] = "cancelled" => cancelSig = "resolved")

\* after close(), with no external cancellation, a session has gone through
\* a whole cycle and is reading its next request
C9_Witness ==
    /\ closed /\ cancelSig = "pending"
    /\ \E c \in Conns : pc[c] = "read" /\ reads[c] = 2 /\ Written(c, 1)

\* handler invocations on connection c
Invocations(c) == Cardinality({n \in 1..Cur(c) : hstate[c][n] # "none"})

\* C10: a read that yields no well-formed request invokes no handler and
\* enqueues no response for that cycle, and the connection is closed; a
\* connection that never sends a request is closed with no handler invoked.
C10_FailedReadClosesConn ==
    \A c \in Conns :
        /\ \A n \in 1..Cur(c) :
              ~reqs[c][n].urlok =>
                  /\ hstate[c][n] = "none"
                  /\ ~Responded(c, n)
                  /\ \A i \in 1..Len(queue[c]) : queue[c][i] # n
                  /\ n = Cur(c)
                  /\ pc[c] = "closed" /\ connCloses[c] = 1
                  /\ why[c] = "malformed url"
        /\ why[c] \in {"read", "cancelled"} =>
              /\ pc[c] = "closed" /\ connCloses[c] = 1
              /\ reads[c] = Cur(c) + 1
              /\ \A n \in 1..Cur(c) : CycleDone(c, n)
              /\ Invocations(c) = Cur(c)
        /\ (why[c] = "read" /\ reads[c] = 1) => Invocations(c) = 0
        /\ Invocations(c) <= Cur(c)

\* a fresh connection whose first read failed
C10_Witness ==
    \E c \in Conns :
        /\ why[c] = "read" /\ reads[c] = 1
        /\ pc[c] = "closed" /\ connCloses[c] = 1

\* C11: the first read of a connection is given the configured readTimeout
\* both as its read timeout and as its keep-alive timeout; the configured
\* keepAliveTimeout D enters with the second read, whose keep-alive timeout
\* is D, or min(D, T*1000) when the first request declared Keep-Alive
\* timeout=T.
C11_FirstReadTimeout ==
    \A c \in Conns :
        /\ reads[c] = 1 =>
              /\ ropts[c].readTimeout = cfg.readTimeout
              /\ ropts[c].keepAliveTimeout = cfg.readTimeout
        /\ reads[c] = 2 =>
              LET r == reqs[c][1] IN
              /\ ropts[c].readTimeout = cfg.readTimeout
              /\ ropts[c].keepAliveTimeout =
                    IF r.ka THEN MathMin(cfg.keepAliveTimeout, r.timeout * 1000)
                    ELSE cfg.keepAliveTimeout

\* the second read is pending with the configured keepAliveTimeout, which
\* differs from the readTimeout the first read had
C11_Witness ==
    \E c \in Conns :
        /\ pc[c] = "read" /\ reads[c] = 2
        /\ ropts[c].keepAliveTimeout = cfg.keepAliveTimeout
        /\ cfg.keepAliveTimeout # cfg.readTimeout

\* C12: the writes of a connection are serialized in submission order: a
\* submitted response joins the end of the queue and starts no write of its
\* own, the write that completes (or fails) is always that of the response
\* submitted earliest among those not yet completed, and a session waiting
\* on the completion signal of its response resumes normally only once that
\* response is fully written.
C12_WritesInSubmissionOrder ==
    [][\A c \in Conns :
          /\ Len(queue'[c]) > Len(queue[c]) =>
                /\ \E n \in 1..Cur(c) : queue'[c] = Append(queue[c], n)
                /\ wire'[c] = wire[c] /\ wfail'[c] = wfail[c]
          /\ wire'[c] # wire[c] =>
                /\ queue[c] # <<>>
                /\ wire'[c] = Append(wire[c], Head(queue[c]))
                /\ queue'[c] = Tail(queue[c])
          /\ wfail'[c] # wfail[c] =>
                /\ queue[c] # <<>>
                /\ wfail'[c] = wfail[c] \cup {Head(queue[c])}
                /\ queue'[c] = Tail(queue[c])
          /\ (pc[c] = "responded" /\ pc'[c] = "body" /\ Responded(c, Cur(c))) =>
                Written(c, Cur(c))
      ]_vars

\* the response of request 2 was submitted before the late response of
\* request 1, both waited in the queue, and they were written in that order
C12_Witness ==
    \E c \in Conns :
        /\ wire[c] = <<2, 1>>
        /\ hstate[c][2] = "returned"
        /\ pc[c] = "body"

\* C13: an error raised in a request cycle closes the connection and ends
\* the session.  A failed read, a handler that threw, a failed write or a
\* failed body close is never passed by: the session is either still
\* suspended at the await that will raise it or closed, and a closed session
\* has called conn.close() once, has no read pending, no handler running,
\* and has started no read and no handler beyond the cycle that failed.
C13_ErrorClosesAndEnds ==
    \A c \in Conns :
        /\ why[c] # "none" <=> pc[c] = "closed"
        /\ \A n \in 1..Cur(c) :
              /\ hstate[c][n] = "thrown" =>
                    n = Cur(c) /\ pc[c] \in {"handler", "closed"}
              /\ n \in wfail[c] =>
                    n = Cur(c) /\ pc[c] \in {"handler", "responded", "closed"}
              /\ bstate[c][n] = "failed" =>
                    n = Cur(c) /\ pc[c] = "closed" /\ why[c] = "body"
        /\ pc[c] = "closed" =>
              /\ connCloses[c] = 1
              /\ \A n \in 1..Cur(c) : hstate[c][n] # "running"
              /\ \A n \in 1..(Cur(c) - 1) : CycleDone(c, n)
              /\ why[c] \in {"read", "cancelled"} => reads[c] = Cur(c) + 1
              /\ why[c] \notin {"read", "cancelled"} => reads[c] = Cur(c)
              /\ why[c] = "handler" => hstate[c][Cur(c)] = "thrown"
              /\ why[c] = "write" => Cur(c) \in wfail[c]
              /\ why[c] = "body" => bstate[c][Cur(c)] = "failed"

\* the write of the second response failed: the session closed the
\* connection on the second cycle and went no further
C13_Witness ==
    \E c \in Conns :
        /\ pc[c] = "closed" /\ why[c] = "write"
        /\ Cur(c) = 2 /\ reads[c] = 2
        /\ connCloses[c] = 1

\* the part of the session state that belongs to connection c
SessionOf(c) ==
    <<pc[c], ropts[c], reads[c], reqs[c], hstate[c], rstatus[c], bstate[c],
      queue[c], wire[c], wfail[c], connCloses[c], why[c]>>

\* C14: the failure of one session stays in that session.  The step in which
\* a session closes its connection changes nothing of the listener and
\* nothing of any other connection's session; and in runs where sessions
\* fail but nobody closes the listener, the listening socket stays open and
\* the accept loop keeps one accept issued for every connection handed over
\* plus the one in flight.
C14_FailuresIsolated ==
    [][/\ \A c \in Conns :
             connCloses'[c] # connCloses[c] =>
                 /\ UNCHANGED supVars
                 /\ \A d \in Conns \ {c} : SessionOf(d)' = SessionOf(d)
       /\ closed' = FALSE /\ dResolved' = FALSE /\ listenerCloses' = 0
       /\ acc' \in {"pending", "resolved"}
       /\ accepts' = started' + 1
      ]_vars

\* the session of connection 1 ended by keep-alive end while the handler of
\* connection 2 runs and the next accept is pending on the open listener
C14_Witness ==
    /\ pc[1] = "closed" /\ why[1] = "keep-alive ended" /\ connCloses[1] = 1
    /\ pc[2] = "handler" /\ connCloses[2] = 0
    /\ acc = "pending" /\ ~closed /\ listenerCloses = 0

\* C15: an accept that failed with an error of its own, not a cancellation,
\* is the last accept: from the failure on no accept is issued and no
\* connection is handed to a session; the catch that follows closes the
\* listening socket (once, unless it was closed already) and leaves every
\* session as it is; and an accept loop that has stopped has a closed
\* listening socket.
C15_AcceptErrorStopsListener ==
    /\ [][acc = "failed" =>
             /\ accepts' = accepts /\ started' = started
             /\ acc' \in {"failed", "idle"}
             /\ acc' = "idle" =>
                   /\ closed' /\ dResolved' /\ listenerCloses' = 1
                   /\ closed => listenerCloses' = listenerCloses
                   /\ UNCHANGED sessVars]_vars
    /\ [][acc = "idle" => (acc' = "idle" /\ accepts' = accepts)]_vars
    /\ [](acc = "idle" => (closed /\ listenerCloses = 1))

\* an accept failed while nobody had closed or cancelled: the supervisor
\* closed the listening socket and a session started before goes on
C15_Witness ==
    /\ acc = "idle" /\ closed /\ listenerCloses = 1
    /\ closeCalls = 0 /\ cancelSig = "pending"
    /\ accepts = 2 /\ started = 1
    /\ pc[1] = "read" /\ reads[1] = 2

\* the loop of the session has ended: no processRequest call is suspended
\* and none will be made
LoopEnded(c) == pc[c] \in {"closed", "upgraded"}

\* C16: a session calls conn.close() at most once; a session whose loop has
\* ended has called it exactly once, unless the loop ended on a response of
\* status 101, in which case it has not called it; and a session whose loop
\* still runs has not closed its connection.
C16_ClosedExactlyOnce ==
    \A c \in Conns :
        /\ connCloses[c] <= 1
        /\ LoopEnded(c) =>
              IF pc[c] = "upgraded"
              THEN Cur(c) >= 1 /\ rstatus[c][Cur(c)] = SwitchingProtocols
                   /\ connCloses[c] = 0
              ELSE connCloses[c] = 1
        /\ ~LoopEnded(c) => connCloses[c] = 0

\* a session that ended by keep-alive end on its second request, after a
\* first cycle that went through, and closed the connection once
C16_Witness ==
    \E c \in Conns :
        /\ LoopEnded(c) /\ why[c] = "keep-alive ended"
        /\ Cur(c) = 2 /\ rstatus[c][2] = 200
        /\ connCloses[c] = 1

\* C17: when several terminal conditions hold for the same request, the
\* first in the order 101, keep-alive ended, connection: close decides.  A
\* cycle that ran to its end with a response of status 101 leaves the
\* connection open whatever the request declared; with any other status, a
\* request that declared both a keep-alive max that is not positive and
\* connection: close ends the session with the error "keep-alive ended".
C17_TerminalOrder ==
    \A c \in Conns :
        (Cur(c) >= 1 /\ bstate[c][Cur(c)] = "closed") =>
            LET r == reqs[c][Cur(c)]
                exhausted == r.ka /\ r.max <= 0
            IN  /\ (rstatus[c][Cur(c)] = 101 /\ (r.close \/ exhausted)) =>
                      /\ pc[c] = "upgraded"
                      /\ connCloses[c] = 0 /\ why[c] = "none"
                /\ (rstatus[c][Cur(c)] # 101 /\ exhausted /\ r.close) =>
                      /\ pc[c] = "closed"
                      /\ why[c] = "keep-alive ended"

\* the handler answered 101 to a request that declared connection: close
\* and Keep-Alive max=0: the loop stopped and the connection is open
C17_Witness ==
    \E c \in Conns :
        /\ pc[c] = "upgraded" /\ connCloses[c] = 0
        /\ rstatus[c][Cur(c)] = 101
        /\ reqs[c][Cur(c)].close
        /\ reqs[c][Cur(c)].ka /\ reqs[c][Cur(c)].max = 0

\* C18: once the cancellation signal of the session's options (opts.cancel)
\* has resolved, a pending read of the session yields no request: the
\* session takes no step from that read but the one that closes the
\* connection, and no handler is invoked; a read ended by cancellation is
\* the last read of the session, on whichever cycle it was started, and
\* every read's options carry the signal.
C18_CancelEndsPendingRead ==
    /\ [][\A c \in Conns :
             (cancelSig = "resolved" /\ pc[c] = "read") =>
                 /\ reqs'[c] = reqs[c] /\ hstate'[c] = hstate[c]
                 /\ reads'[c] = reads[c]
                 /\ pc'[c] \in {"read", "closed"}
                 /\ pc'[c] = "closed" => connCloses'[c] = 1]_vars
    /\ [](\A c \in Conns :
             /\ pc[c] = "read" => ropts[c].cancel
             /\ why[c] = "cancelled" =>
                   /\ cancelSig = "resolved"
                   /\ pc[c] = "closed" /\ connCloses[c] = 1
                   /\ reads[c] = Cur(c) + 1
                   /\ Invocations(c) <= Cur(c))

\* the signal resolved during the second read: the connection is closed and
\* the one handler invocation is that of the first request
C18_Witness ==
    \E c \in Conns :
        /\ why[c] = "cancelled" /\ pc[c] = "closed" /\ connCloses[c] = 1
        /\ reads[c] = 2 /\ Cur(c) = 1 /\ Invocations(c) = 1

\* C19: when opts.cancel has resolved while an accept is pending, no accept
\* is issued and no connection is accepted from then on, and the supervisor
\* comes to the state a call of close() leaves: closed set, d resolved, the
\* listening socket closed, once in the whole run; a call of close() on the
\* closed handle changes nothing.
C19_ExternalCancelClosesListener ==
    /\ (cancelSig = "resolved" /\ acc = "pending")
          ~> (acc = "idle" /\ closed /\ dResolved /\ listenerCloses = 1)
    /\ [][(cancelSig = "resolved" /\ acc = "pending") =>
             /\ accepts' = accepts /\ started' = started
             /\ acc' \in {"pending", "failed", "cancelled"}]_vars
    /\ [](listenerCloses <= 1)
    /\ [][(closed /\ cancelSig = "resolved" /\ closeCalls' # closeCalls) =>
             UNCHANGED <<closed, dResolved, listenerCloses, acc, accepts,
                         started, sessVars>>]_vars

\* opts.cancel resolved and nobody called close(): the pending accept was
\* rejected as cancelled and its catch closed the listening socket
C19_Witness ==
    /\ cancelSig = "resolved" /\ closeCalls = 0
    /\ acc = "idle" /\ closed /\ dResolved /\ listenerCloses = 1
    /\ accepts = 2 /\ started = 1

\* C20: a session whose handler returned without responding waits for no
\* response.  Each of its next steps is ready as soon as it is reached: the
\* resumption after the handler, the resumption after `responded`, the close
\* of the body; the loop is not stopped as upgraded; and once the body is
\* closed and the request meets no terminal condition, the next read has
\* been started with nothing written and nothing queued for the request.
C20_NoResponseNoWait ==
    \A c \in Conns :
        (/\ Cur(c) >= 1
         /\ hstate[c][Cur(c)] = "returned"
         /\ rstatus[c][Cur(c)] = NoStatus) =>
            LET r == reqs[c][Cur(c)] IN
            /\ pc[c] = "handler" => ENABLED AwaitHandler(c)
            /\ pc[c] = "responded" => ENABLED AwaitResponded(c)
            /\ pc[c] = "body" => ENABLED BodyCloseOk(c)
            /\ pc[c] # "upgraded"
            /\ ~Written(c, Cur(c))
            /\ \A i \in 1..Len(queue[c]) : queue[c][i] # Cur(c)
            /\ (bstate[c][Cur(c)] = "closed" /\ ~(r.ka /\ r.max <= 0) /\ ~r.close) =>
                  /\ reads[c] = Cur(c) + 1
                  /\ \/ pc[c] = "read"
                     \/ pc[c] = "closed" /\ why[c] \in {"read", "cancelled"}

\* the second read is pending and nothing was ever written or submitted on
\* the connection: the handler of the first request returned without
\* responding
C20_Witness ==
    \E c \in Conns :
        /\ pc[c] = "read" /\ reads[c] = 2 /\ Cur(c) = 1
        /\ hstate[c][1] = "returned" /\ rstatus[c][1] = NoStatus
        /\ wire[c] = <<>> /\ queue[c] = <<>> /\ wfail[c] = {}

====
